---- MODULE Spec2Model ----
(***************************************************************************)
(* MConfig: a fixed-size, XOR-obfuscated key/value store.                  *)
(*                                                                         *)
(* A String is modelled as the sequence of its UTF-8 bytes (0..255), an    *)
(* Option<T> as a sequence of length 0 (None) or 1 (Some), a Result as a   *)
(* record, and the HashMap<String, Option<String>> as a function from the  *)
(* set of its keys.  The sizes (8192, 255, 6) are those of the source.     *)
(***************************************************************************)
EXTENDS Integers, Sequences, FiniteSets, TLC

VARIABLES
    version,    \* MConfig.version
    entries,    \* MConfig.entries
    secret,     \* MConfig.secret
    ret,        \* the last call on the Store and what it returned
    last,       \* history: the value of the latest successful insert of each key
                \* not removed since
    vec,        \* the byte buffer in the caller's hands (output of to_vec / input of load)
    built       \* what MConfigBuilder.try_build returned for vec: secret used and Result

vars == <<version, entries, secret, ret, last, vec, built>>

----------------------------------------------------------------------------
(* Option and Result *)

None == <<>>
Some(x) == <<x>>
unwrap_or(o, d) == IF o = None THEN d ELSE o[1]

Ok(x) == [ok |-> TRUE, val |-> x, err |-> "-"]
Err(e) == [ok |-> FALSE, val |-> <<>>, err |-> e]

----------------------------------------------------------------------------
(* Constants of impl MConfig *)

MAGIC_HEADER_BYTES == <<77, 67, 79, 78, 70>>
HEADER_SIZE == Len(MAGIC_HEADER_BYTES) + 1
VERSION_INDEX == Len(MAGIC_HEADER_BYTES)
MCONFIG_SIZE == 8192
MAX_KEY_LEN == 255
MAX_VALUE_LEN == 255
LATEST_VERSION == 0

----------------------------------------------------------------------------
(* HashMap<String, Option<String>> *)

MCHashMap_new == [k \in {} |-> None]
HashMap_get(m, k) == IF k \in DOMAIN m THEN Some(m[k]) ELSE None
HashMap_contains_key(m, k) == k \in DOMAIN m
HashMap_insert(m, k, v) == [x \in DOMAIN m \cup {k} |-> IF x = k THEN v ELSE m[x]]
HashMap_remove(m, k) == [x \in DOMAIN m \ {k} |-> m[x]]
HashMap_len(m) == Cardinality(DOMAIN m)

\* the term one entry adds in the fold of try_insert: k.len() + 1 + (v.len() + 1 | 1)
EntryLen(k, v) == Len(k) + 1 + (IF v = None THEN 1 ELSE Len(v[1]) + 1)

RECURSIVE FoldLen(_, _, _)
FoldLen(m, keys, acc) ==
    IF keys = {} THEN acc
    ELSE LET k == CHOOSE x \in keys : TRUE
         IN FoldLen(m, keys \ {k}, acc + EntryLen(k, m[k]))

----------------------------------------------------------------------------
(* Store operations: impl MConfig.  Each returns what the method returns   *)
(* and, for the &mut self methods, the fields after the call.              *)

\* try_insert with the size test off by one
try_insert_le(m, key, value) ==
    IF Len(key) > MAX_KEY_LEN
    THEN [res |-> Err("KeyTooBig"), entries |-> m]
    ELSE IF value # None /\ Len(value[1]) > MAX_VALUE_LEN
    THEN [res |-> Err("ValueTooBig"), entries |-> m]
    ELSE LET overall_len == Len(key) + 1
                            + (IF value = None THEN 1 ELSE Len(value[1]) + 1)
                            + FoldLen(m, DOMAIN m, HEADER_SIZE)
         IN IF overall_len <= MCONFIG_SIZE
            THEN [res |-> Ok(unwrap_or(HashMap_get(m, key), None)),
                  entries |-> HashMap_insert(m, key, value)]
            ELSE [res |-> Err("TooBig"), entries |-> m]

\* try_insert whose fold leaves the header out
try_insert_noheader(m, key, value) ==
    IF Len(key) > MAX_KEY_LEN
    THEN [res |-> Err("KeyTooBig"), entries |-> m]
    ELSE IF value # None /\ Len(value[1]) > MAX_VALUE_LEN
    THEN [res |-> Err("ValueTooBig"), entries |-> m]
    ELSE LET overall_len == Len(key) + 1
                            + (IF value = None THEN 1 ELSE Len(value[1]) + 1)
                            + FoldLen(m, DOMAIN m, 0)
         IN IF overall_len < MCONFIG_SIZE
            THEN [res |-> Ok(unwrap_or(HashMap_get(m, key), None)),
                  entries |-> HashMap_insert(m, key, value)]
            ELSE [res |-> Err("TooBig"), entries |-> m]

\* try_insert that tests the value's length only after the total
try_insert_late(m, key, value) ==
    IF Len(key) > MAX_KEY_LEN
    THEN [res |-> Err("KeyTooBig"), entries |-> m]
    ELSE LET overall_len == Len(key) + 1
                            + (IF value = None THEN 1 ELSE Len(value[1]) + 1)
                            + FoldLen(m, DOMAIN m, HEADER_SIZE)
         IN IF overall_len >= MCONFIG_SIZE
            THEN [res |-> Err("TooBig"), entries |-> m]
            ELSE IF value # None /\ Len(value[1]) > MAX_VALUE_LEN
            THEN [res |-> Err("ValueTooBig"), entries |-> m]
            ELSE [res |-> Ok(unwrap_or(HashMap_get(m, key), None)),
                  entries |-> HashMap_insert(m, key, value)]

\* try_insert that returns the value now stored instead of the prior one
try_insert_new(m, key, value) ==
    IF Len(key) > MAX_KEY_LEN
    THEN [res |-> Err("KeyTooBig"), entries |-> m]
    ELSE IF value # None /\ Len(value[1]) > MAX_VALUE_LEN
    THEN [res |-> Err("ValueTooBig"), entries |-> m]
    ELSE LET overall_len == Len(key) + 1
                            + (IF value = None THEN 1 ELSE Len(value[1]) + 1)
                            + FoldLen(m, DOMAIN m, HEADER_SIZE)
         IN IF overall_len < MCONFIG_SIZE
            THEN [res |-> Ok(value), entries |-> HashMap_insert(m, key, value)]
            ELSE [res |-> Err("TooBig"), entries |-> m]

\* try_insert whose fold leaves out the entry that is replaced
try_insert_replace(m, key, value) ==
    IF Len(key) > MAX_KEY_LEN
    THEN [res |-> Err("KeyTooBig"), entries |-> m]
    ELSE IF value # None /\ Len(value[1]) > MAX_VALUE_LEN
    THEN [res |-> Err("ValueTooBig"), entries |-> m]
    ELSE LET overall_len == Len(key) + 1
                            + (IF value = None THEN 1 ELSE Len(value[1]) + 1)
                            + FoldLen(m, DOMAIN m \ {key}, HEADER_SIZE)
         IN IF overall_len < MCONFIG_SIZE
            THEN [res |-> Ok(unwrap_or(HashMap_get(m, key), None)),
                  entries |-> HashMap_insert(m, key, value)]
            ELSE [res |-> Err("TooBig"), entries |-> m]

try_insert(m, key, value) ==
    IF Len(key) > MAX_KEY_LEN
    THEN [res |-> Err("KeyTooBig"), entries |-> m]
    ELSE IF value # None /\ Len(value[1]) > MAX_VALUE_LEN
    THEN [res |-> Err("ValueTooBig"), entries |-> m]
    ELSE LET overall_len == Len(key) + 1
                            + (IF value = None THEN 1 ELSE Len(value[1]) + 1)
                            + FoldLen(m, DOMAIN m, HEADER_SIZE)
         IN IF overall_len < MCONFIG_SIZE
            THEN [res |-> Ok(unwrap_or(HashMap_get(m, key), None)),
                  entries |-> HashMap_insert(m, key, value)]
            ELSE [res |-> Err("TooBig"), entries |-> m]

try_get(m, key) ==
    IF HashMap_get(m, key) = None THEN Err("MissingKey") ELSE Ok(HashMap_get(m, key)[1])

get(m, key) == HashMap_get(m, key)

contains_key(m, key) == HashMap_contains_key(m, key)

\* remove that returns the value and leaves the entry in place
remove_peek(m, key) == [res |-> HashMap_get(m, key), entries |-> m]

\* remove that empties the map
remove_clear(m, key) == [res |-> HashMap_get(m, key), entries |-> MCHashMap_new]

remove(m, key) == [res |-> HashMap_get(m, key), entries |-> HashMap_remove(m, key)]

len(m) == HashMap_len(m)

set_secret(s) == s

----------------------------------------------------------------------------
(* Obfuscation: bytewise XOR against the cycled bytes of the secret.       *)

RECURSIVE XorBits(_, _, _)
XorBits(a, b, n) ==
    IF n = 0 THEN 0
    ELSE (((a % 2) + (b % 2)) % 2) + 2 * XorBits(a \div 2, b \div 2, n - 1)

\* u8 ^ u8, tabulated
XorU8 == [a \in 0..255 |-> [b \in 0..255 |-> XorBits(a, b, 8)]]

\* xor_buffer zipping with the secret itself instead of its cycle
xor_buffer_nocycle(buf, sec) ==
    [i \in 1..Len(buf) |-> IF i <= Len(sec) THEN XorU8[buf[i]][sec[i]] ELSE buf[i]]

\* xor_buffer that adds the secret's byte instead (wrapping_add)
xor_buffer_add(buf, sec) ==
    IF Len(sec) = 0 THEN buf
    ELSE [i \in 1..Len(buf) |-> (buf[i] + sec[((i - 1) % Len(sec)) + 1]) % 256]

\* buf.iter_mut().zip(secret.iter().cycle()): an empty secret yields no pair
xor_buffer(buf, sec) ==
    IF Len(sec) = 0 THEN buf
    ELSE [i \in 1..Len(buf) |-> XorU8[buf[i]][sec[((i - 1) % Len(sec)) + 1]]]

obfuscate(buffer, sec, ver) == IF sec = None THEN buffer ELSE xor_buffer(buffer, sec[1])

deobfuscate(buffer, sec, ver) == IF sec = None THEN buffer ELSE xor_buffer(buffer, sec[1])

----------------------------------------------------------------------------
(* Serialisation.  `order` is the order in which the HashMap iterator      *)
(* yields the keys, `rnd` the bytes rand::random::<u8>() returns, in turn. *)
(* A failed assert! is the result [panic |-> TRUE].                        *)

EncodeEntry(k, v) ==
    <<Len(k) % 256>> \o k \o (IF v = None THEN <<0>> ELSE <<Len(v[1]) % 256>> \o v[1])

RECURSIVE EncodeEntries(_, _, _)
EncodeEntries(m, order, i) ==
    IF i > Len(order) THEN <<>>
    ELSE EncodeEntry(order[i], m[order[i]]) \o EncodeEntries(m, order, i + 1)

entries_to_vec(m, order, rnd) ==
    LET v == EncodeEntries(m, order, 1) \o <<0>>
        room == MCONFIG_SIZE - HEADER_SIZE
    IN IF \/ \E k \in DOMAIN m : Len(k) > MAX_KEY_LEN
          \/ \E k \in DOMAIN m : m[k] # None /\ Len(m[k][1]) > MAX_VALUE_LEN
          \/ Len(v) > room
       THEN [panic |-> TRUE, bytes |-> <<>>]
       ELSE [panic |-> FALSE, bytes |-> v \o SubSeq(rnd, 1, room - Len(v))]

to_vec(ver, m, sec, order, rnd) ==
    LET e == entries_to_vec(m, order, rnd)
    IN IF e.panic THEN e
       ELSE LET v == MAGIC_HEADER_BYTES \o <<ver>> \o obfuscate(e.bytes, sec, ver)
            IN IF Len(v) # MCONFIG_SIZE THEN [panic |-> TRUE, bytes |-> <<>>]
               ELSE [panic |-> FALSE, bytes |-> v]

----------------------------------------------------------------------------
(* Parsing: impl MConfigBuilder *)

Cont(b) == b >= 128 /\ b <= 191

\* the length of the UTF-8 sequence a byte opens, 0 for a byte that opens none
Utf8Width(c) ==
    IF c < 128 THEN 1
    ELSE IF c >= 194 /\ c <= 223 THEN 2
    ELSE IF c >= 224 /\ c <= 239 THEN 3
    ELSE IF c >= 240 /\ c <= 244 THEN 4
    ELSE 0

\* the second byte of a sequence excludes overlong forms, surrogates and > U+10FFFF
Utf8Second(c, d) ==
    /\ c = 224 => d >= 160
    /\ c = 237 => d <= 159
    /\ c = 240 => d >= 144
    /\ c = 244 => d <= 143

\* String::from_utf8(bytes).is_ok(): every byte opens a complete sequence or
\* continues the sequence opened at most three bytes before it
String_from_utf8_ok(b) ==
    \A i \in 1..Len(b) :
        LET c == b[i]
        IN IF c < 128 THEN TRUE
           ELSE IF Cont(c)
           THEN \E d \in 1..3 : /\ i - d >= 1
                                /\ Utf8Width(b[i - d]) > d
                                /\ \A j \in (i - d + 1)..(i - 1) : Cont(b[j])
           ELSE /\ Utf8Width(c) >= 2
                /\ i + Utf8Width(c) - 1 <= Len(b)
                /\ \A j \in (i + 1)..(i + Utf8Width(c) - 1) : Cont(b[j])
                /\ Utf8Second(c, b[i + 1])

\* ParseEntry that takes a key reaching the last byte for a truncated one
ParseEntry_keyend(buffer, i, m) ==
    LET End(r) == [done |-> TRUE, res |-> r, at |-> i, map |-> m]
        Go(j, mm) == [done |-> FALSE, res |-> Ok(mm), at |-> j, map |-> mm]
        key_len == buffer[i]
        key == SubSeq(buffer, i + 1, i + key_len)
        j == i + key_len + 1
        val_len == buffer[j]
        val == SubSeq(buffer, j + 1, j + val_len)
    IN IF i > Len(buffer) THEN End(Ok(m))
       ELSE IF key_len = 0 THEN End(Ok(m))
       ELSE IF i + key_len >= Len(buffer) THEN End(Err("TruncatedKey"))
       ELSE IF ~String_from_utf8_ok(key) THEN End(Err("InvalidUTF8"))
       ELSE IF j > Len(buffer) THEN End(Err("MissingKey"))
       ELSE IF val_len = 0 THEN Go(j + 1, HashMap_insert(m, key, None))
       ELSE IF j + val_len > Len(buffer) THEN End(Err("TruncatedValue"))
       ELSE IF ~String_from_utf8_ok(val) THEN End(Err("InvalidUTF8"))
       ELSE Go(j + val_len + 1, HashMap_insert(m, key, Some(val)))

\* ParseEntry that reads a zero key length as an empty key and goes on
ParseEntry_nobreak(buffer, i, m) ==
    LET End(r) == [done |-> TRUE, res |-> r, at |-> i, map |-> m]
        Go(j, mm) == [done |-> FALSE, res |-> Ok(mm), at |-> j, map |-> mm]
        key_len == buffer[i]
        key == SubSeq(buffer, i + 1, i + key_len)
        j == i + key_len + 1
        val_len == buffer[j]
        val == SubSeq(buffer, j + 1, j + val_len)
    IN IF i > Len(buffer) THEN End(Ok(m))
       ELSE IF i + key_len > Len(buffer) THEN End(Err("TruncatedKey"))
       ELSE IF ~String_from_utf8_ok(key) THEN End(Err("InvalidUTF8"))
       ELSE IF j > Len(buffer) THEN End(Err("MissingKey"))
       ELSE IF val_len = 0 THEN Go(j + 1, HashMap_insert(m, key, None))
       ELSE IF j + val_len > Len(buffer) THEN End(Err("TruncatedValue"))
       ELSE IF ~String_from_utf8_ok(val) THEN End(Err("InvalidUTF8"))
       ELSE Go(j + val_len + 1, HashMap_insert(m, key, Some(val)))

\* ParseEntry that reads a zero value length as the empty string
ParseEntry_emptyvalue(buffer, i, m) ==
    LET End(r) == [done |-> TRUE, res |-> r, at |-> i, map |-> m]
        Go(j, mm) == [done |-> FALSE, res |-> Ok(mm), at |-> j, map |-> mm]
        key_len == buffer[i]
        key == SubSeq(buffer, i + 1, i + key_len)
        j == i + key_len + 1
        val_len == buffer[j]
        val == SubSeq(buffer, j + 1, j + val_len)
    IN IF i > Len(buffer) THEN End(Ok(m))
       ELSE IF key_len = 0 THEN End(Ok(m))
       ELSE IF i + key_len > Len(buffer) THEN End(Err("TruncatedKey"))
       ELSE IF ~String_from_utf8_ok(key) THEN End(Err("InvalidUTF8"))
       ELSE IF j > Len(buffer) THEN End(Err("MissingKey"))
       ELSE IF val_len = 0 THEN Go(j + 1, HashMap_insert(m, key, Some(<<>>)))
       ELSE IF j + val_len > Len(buffer) THEN End(Err("TruncatedValue"))
       ELSE IF ~String_from_utf8_ok(val) THEN End(Err("InvalidUTF8"))
       ELSE Go(j + val_len + 1, HashMap_insert(m, key, Some(val)))

\* ParseEntry that keeps the entry the map already holds for a key (or_insert)
ParseEntry_firstwins(buffer, i, m) ==
    LET End(r) == [done |-> TRUE, res |-> r, at |-> i, map |-> m]
        Go(j, mm) == [done |-> FALSE, res |-> Ok(mm), at |-> j, map |-> mm]
        Keep(k, v) == IF k \in DOMAIN m THEN m ELSE HashMap_insert(m, k, v)
        key_len == buffer[i]
        key == SubSeq(buffer, i + 1, i + key_len)
        j == i + key_len + 1
        val_len == buffer[j]
        val == SubSeq(buffer, j + 1, j + val_len)
    IN IF i > Len(buffer) THEN End(Ok(m))
       ELSE IF key_len = 0 THEN End(Ok(m))
       ELSE IF i + key_len > Len(buffer) THEN End(Err("TruncatedKey"))
       ELSE IF ~String_from_utf8_ok(key) THEN End(Err("InvalidUTF8"))
       ELSE IF j > Len(buffer) THEN End(Err("MissingKey"))
       ELSE IF val_len = 0 THEN Go(j + 1, Keep(key, None))
       ELSE IF j + val_len > Len(buffer) THEN End(Err("TruncatedValue"))
       ELSE IF ~String_from_utf8_ok(val) THEN End(Err("InvalidUTF8"))
       ELSE Go(j + val_len + 1, Keep(key, Some(val)))

\* one turn of the while-let loop of try_parse, the iterator standing at byte i:
\* the loop ends with a result, or goes on at byte `at` with the map `map`
ParseEntry(buffer, i, m) ==
    LET End(r) == [done |-> TRUE, res |-> r, at |-> i, map |-> m]
        Go(j, mm) == [done |-> FALSE, res |-> Ok(mm), at |-> j, map |-> mm]
        key_len == buffer[i]
        key == SubSeq(buffer, i + 1, i + key_len)
        j == i + key_len + 1
        val_len == buffer[j]
        val == SubSeq(buffer, j + 1, j + val_len)
    IN IF i > Len(buffer) THEN End(Ok(m))
       ELSE IF key_len = 0 THEN End(Ok(m))
       ELSE IF i + key_len > Len(buffer) THEN End(Err("TruncatedKey"))
       ELSE IF ~String_from_utf8_ok(key) THEN End(Err("InvalidUTF8"))
       ELSE IF j > Len(buffer) THEN End(Err("MissingKey"))
       ELSE IF val_len = 0 THEN Go(j + 1, HashMap_insert(m, key, None))
       ELSE IF j + val_len > Len(buffer) THEN End(Err("TruncatedValue"))
       ELSE IF ~String_from_utf8_ok(val) THEN End(Err("InvalidUTF8"))
       ELSE Go(j + val_len + 1, HashMap_insert(m, key, Some(val)))

\* 2^n turns of the loop from the state e, or fewer if the loop ends before
RECURSIVE ParseTurns(_, _, _)
ParseTurns(buffer, e, n) ==
    IF e.done THEN e
    ELSE IF n = 0 THEN ParseEntry(buffer, e.at, e.map)
    ELSE ParseTurns(buffer, ParseTurns(buffer, e, n - 1), n - 1)

\* the loop runs to its end: a turn consumes a byte, and 2^13 = MCONFIG_SIZE
ParseLoop(buffer, i, m) ==
    ParseTurns(buffer, [done |-> FALSE, res |-> Ok(m), at |-> i, map |-> m], 13).res

try_parse(buffer, sec, ver) == ParseLoop(deobfuscate(buffer, sec, ver), 1, MCHashMap_new)

\* try_build that looks at the magic bytes before the maximum length
try_build_magicfirst(raw_bytes, sec) ==
    LET maybe_entries ==
            IF raw_bytes = None THEN Ok(MCHashMap_new)
            ELSE LET raw == raw_bytes[1]
                 IN IF Len(raw) < HEADER_SIZE THEN Err("TooShort")
                    ELSE IF SubSeq(raw, 1, Len(MAGIC_HEADER_BYTES)) # MAGIC_HEADER_BYTES
                    THEN Err("BadHeader")
                    ELSE IF Len(raw) > MCONFIG_SIZE THEN Err("TooBig")
                    ELSE IF raw[VERSION_INDEX + 1] # 0 THEN Err("UnknownVersion")
                    ELSE try_parse(SubSeq(raw, HEADER_SIZE + 1, Len(raw)), sec,
                                   raw[VERSION_INDEX + 1])
    IN IF maybe_entries.ok
       THEN Ok([version |-> 0, entries |-> maybe_entries.val, secret |-> sec])
       ELSE Err(maybe_entries.err)

\* raw_bytes is an Option<Vec<u8>>; the Ok value is the MConfig built
try_build(raw_bytes, sec) ==
    LET maybe_entries ==
            IF raw_bytes = None THEN Ok(MCHashMap_new)
            ELSE LET raw == raw_bytes[1]
                 IN IF Len(raw) < HEADER_SIZE THEN Err("TooShort")
                    ELSE IF Len(raw) > MCONFIG_SIZE THEN Err("TooBig")
                    ELSE IF SubSeq(raw, 1, Len(MAGIC_HEADER_BYTES)) # MAGIC_HEADER_BYTES
                    THEN Err("BadHeader")
                    ELSE IF raw[VERSION_INDEX + 1] # 0 THEN Err("UnknownVersion")
                    ELSE try_parse(SubSeq(raw, HEADER_SIZE + 1, Len(raw)), sec,
                                   raw[VERSION_INDEX + 1])
    IN IF maybe_entries.ok
       THEN Ok([version |-> 0, entries |-> maybe_entries.val, secret |-> sec])
       ELSE Err(maybe_entries.err)

----------------------------------------------------------------------------
(* Inputs of the model *)

Repeat(b, n) == [i \in 1..n |-> b]

KeyA == <<97>>                               \* "a"
KeyBye == <<66, 121, 101>>                   \* "Bye"
KeyHuge == Repeat(120, MAX_KEY_LEN + 1)      \* one byte too long
ValV == <<118>>                              \* "v"
ValHuge == Repeat(121, MAX_VALUE_LEN + 1)    \* one byte too long
SecretTacos == <<84, 65, 67, 79, 83>>        \* "TACOS"

KeyEmpty == <<>>                             \* ""
ValEmpty == <<>>                             \* ""
SecretT == <<84>>                            \* "T"
SecretTT == <<84, 84>>                       \* "TT"
SecretU == <<85>>                            \* "U"

\* The Stores that are serialised and loaded back
CodecKeys == {KeyA, KeyEmpty}
CodecValues == {None, Some(ValEmpty), Some(ValV)}
CodecSecrets == {None, Some(SecretT), Some(SecretTT)}
LoadSecrets == {None, Some(SecretT), Some(SecretTT), Some(SecretU)}

\* The bytes a caller may hand to load(): a header, right or wrong, and a body
MaxBody == 4
ParseBytes == {0, 1, 97, 255}
Bodies == UNION {[1..n -> ParseBytes] : n \in 0..MaxBody}
GoodHeader == MAGIC_HEADER_BYTES \o <<0>>
BadMagic == <<0, 67, 79, 78, 70, 0>>
BadVersion == MAGIC_HEADER_BYTES \o <<1>>
BadMagicAndVersion == <<0, 67, 79, 78, 70, 1>>
BadHeaders == {BadMagic, BadVersion, BadMagicAndVersion}
SomeEntry == <<1, 97, 1, 97, 0>>
RawBuffers ==
    {GoodHeader \o b : b \in Bodies}
    \cup {h \o b : h \in BadHeaders, b \in {<<>>, SomeEntry}}
    \cup {SubSeq(h, 1, n) : h \in BadHeaders \cup {GoodHeader}, n \in 0..(HEADER_SIZE - 1)}
    \cup {h \o SomeEntry \o Repeat(0, MCONFIG_SIZE - HEADER_SIZE - Len(SomeEntry) + d) :
             h \in {GoodHeader, BadMagic, BadVersion}, d \in {0, 1}}
ParseSecrets == {None, Some(<<1>>)}
\* the bytes that may follow the sentinel
Paddings == UNION {[1..n -> ParseBytes] : n \in 0..2}

\* The workload that fills the Store, as tests::maximum_length_fails does, with
\* entries of MAX_KEY_LEN + 1 + (MAX_VALUE_LEN - 1) + 1 bytes inserted in turn.
MaxFill == 17
FillKey(i) == [j \in 1..MAX_KEY_LEN |-> IF j = 1 THEN 64 + i ELSE 107]
FillValue == Repeat(102, MAX_VALUE_LEN - 1)
FillKeys == {FillKey(i) : i \in 1..MaxFill}
FillLevel(m) == Cardinality(DOMAIN m \cap FillKeys)

FreeKeys == {KeyA, KeyBye, KeyHuge}
FreeValues == {None, Some(ValV), Some(ValHuge)}
StoreSecrets == {None, Some(SecretTacos)}

\* The free keys are worked on while the Store holds no fill entry, and once
\* it holds so many that no further one fits.
FreePhase(m) ==
    \/ FillLevel(m) = 0
    \/ ~try_insert(m, FillKey(FillLevel(m) + 1), Some(FillValue)).res.ok
NoFreeKey(m) == DOMAIN m \cap FreeKeys = {}

InsertInputs(m) ==
    (IF FreePhase(m) THEN FreeKeys \X FreeValues ELSE {})
    \cup (IF NoFreeKey(m) /\ FillLevel(m) < MaxFill
          THEN {<<FillKey(FillLevel(m) + 1), Some(FillValue)>>} ELSE {})

RemoveInputs(m) ==
    (IF FreePhase(m) THEN FreeKeys ELSE {})
    \cup (IF NoFreeKey(m) /\ FillLevel(m) > 0 THEN {FillKey(FillLevel(m))} ELSE {})

\* The bytes rand::random::<u8>() may return: all zero, or bytes that read as entries.
RandomZeros == Repeat(0, MCONFIG_SIZE)
RandomEntries == [i \in 1..MCONFIG_SIZE |-> <<1, 97, 0>>[((i - 1) % 3) + 1]]
RandomStreams == {RandomZeros, RandomEntries}

\* The orders in which a HashMap may yield its keys: every order of a small
\* map, one order and its reverse of a larger one.
MaxPermuted == 3

RECURSIVE SomeOrder(_)
SomeOrder(S) ==
    IF S = {} THEN <<>>
    ELSE LET k == CHOOSE x \in S : TRUE IN <<k>> \o SomeOrder(S \ {k})

Reverse(s) == [i \in 1..Len(s) |-> s[Len(s) + 1 - i]]

IterOrders(m) ==
    LET S == DOMAIN m
        n == Cardinality(S)
    IN IF n <= MaxPermuted
       THEN {o \in [1..n -> S] : \A i, j \in 1..n : i # j => o[i] # o[j]}
       ELSE {SomeOrder(S), Reverse(SomeOrder(S))}

----------------------------------------------------------------------------
(* The state machine *)

\* prior: what get(key) returned just before the call
NoCall == [op |-> "new", key |-> <<>>, value |-> None, prior |-> None, res |-> <<>>]
NoHistory == [k \in {} |-> None]

\* MConfig::builder()[.secret(s)].try_build()
Init ==
    \E s \in StoreSecrets :
        LET b == try_build(None, s)
        IN /\ b.ok
           /\ version = b.val.version
           /\ entries = b.val.entries
           /\ secret = b.val.secret
           /\ ret = NoCall
           /\ last = NoHistory
           /\ vec = <<>>
           /\ built = None

TryInsert(key, value) ==
    LET r == try_insert(entries, key, value)
    IN /\ entries' = r.entries
       /\ ret' = [op |-> "try_insert", key |-> key, value |-> value,
                  prior |-> get(entries, key), res |-> r.res]
       /\ last' = IF r.res.ok
                  THEN [k \in DOMAIN last \cup {key} |-> IF k = key THEN value ELSE last[k]]
                  ELSE last
       /\ UNCHANGED <<version, secret, vec, built>>

Remove(key) ==
    LET r == remove(entries, key)
    IN /\ entries' = r.entries
       /\ ret' = [op |-> "remove", key |-> key, value |-> None,
                  prior |-> get(entries, key), res |-> r.res]
       /\ last' = [k \in DOMAIN last \ {key} |-> last[k]]
       /\ UNCHANGED <<version, secret, vec, built>>

SetSecret(s) ==
    /\ secret' = set_secret(s)
    /\ ret' = [op |-> "set_secret", key |-> <<>>, value |-> s, prior |-> None, res |-> <<>>]
    /\ UNCHANGED <<version, entries, last, vec, built>>

\* to_vec(): the caller receives the buffer, or the thread panics
ToVec(order, rnd) ==
    LET r == to_vec(version, entries, secret, order, rnd)
    IN /\ vec' = r.bytes
       /\ ret' = [op |-> "to_vec", key |-> <<>>, value |-> None, prior |-> None,
                  res |-> [panic |-> r.panic, len |-> Len(r.bytes)]]
       /\ UNCHANGED <<version, entries, secret, last, built>>

\* the caller is done with the buffer (main writes it to the file)
Release ==
    /\ vec # <<>>
    /\ vec' = <<>>
    /\ UNCHANGED <<version, entries, secret, ret, last, built>>

Next ==
    \/ /\ vec = <<>>
       /\ \E kv \in InsertInputs(entries) : TryInsert(kv[1], kv[2])
    \/ /\ vec = <<>>
       /\ \E k \in RemoveInputs(entries) : Remove(k)
    \/ /\ vec = <<>>
       /\ \E s \in StoreSecrets : SetSecret(s)
    \/ /\ vec = <<>>
       /\ \E o \in IterOrders(entries), rnd \in RandomStreams : ToVec(o, rnd)
    \/ Release

Spec == Init /\ [][Next]_vars

----------------------------------------------------------------------------
(* Properties of the Store (specification Spec) *)

\* the bytes the entries of m take in the buffer
EncodedSize(m) == Len(EncodeEntries(m, SomeOrder(DOMAIN m), 1))
\* header + entries of m + the entry (key, value)
Projected(m, key, value) == HEADER_SIZE + EncodedSize(m) + Len(EncodeEntry(key, value))

InsertCall == vec = <<>> /\ vec' = <<>> /\ ret'.op = "try_insert"
WithinBounds(key, value) ==
    Len(key) <= MAX_KEY_LEN /\ (value = None \/ Len(value[1]) <= MAX_VALUE_LEN)

\* C2: in every state, header + encoded entries + terminator fit in MCONFIG_SIZE
\* bytes; to_vec never panics and returns MCONFIG_SIZE bytes that begin with the
\* magic bytes and version 0.
C2_SizeInvariant ==
    /\ HEADER_SIZE + EncodedSize(entries) + 1 <= MCONFIG_SIZE
    /\ ret.op = "to_vec" => ~ret.res.panic /\ ret.res.len = MCONFIG_SIZE
    /\ vec # <<>> => /\ Len(vec) = MCONFIG_SIZE
                     /\ SubSeq(vec, 1, HEADER_SIZE) = <<77, 67, 79, 78, 70, 0>>

\* a full Store (no padding byte left) has been serialised
C2_Witness ==
    /\ vec # <<>>
    /\ ret.op = "to_vec"
    /\ HEADER_SIZE + EncodedSize(entries) + 1 = MCONFIG_SIZE

\* C4: a try_insert with key and value within their bounds returns Err(TooBig)
\* when header + existing entries + the new entry is >= MCONFIG_SIZE, and Ok
\* when it is less.
C4_SizeEnforcement ==
    [][InsertCall /\ WithinBounds(ret'.key, ret'.value)
         => IF Projected(entries, ret'.key, ret'.value) >= MCONFIG_SIZE
            THEN ret'.res = Err("TooBig")
            ELSE ret'.res.ok]_vars

\* an insert refused with the projected total exactly MCONFIG_SIZE
C4_Witness ==
    /\ ret.op = "try_insert"
    /\ ret.res = Err("TooBig")
    /\ Projected(entries, ret.key, ret.value) = MCONFIG_SIZE

\* C5: a key of more than MAX_KEY_LEN bytes gives Err(KeyTooBig), a value of more
\* than MAX_VALUE_LEN bytes (with a key within bounds) gives Err(ValueTooBig);
\* both leave entries and secret as they were; every key and value held is
\* within bounds.
C5_LengthBounds ==
    [][/\ InsertCall /\ Len(ret'.key) > MAX_KEY_LEN
          => ret'.res = Err("KeyTooBig") /\ entries' = entries /\ secret' = secret
       /\ InsertCall /\ Len(ret'.key) <= MAX_KEY_LEN
                     /\ ret'.value # None /\ Len(ret'.value[1]) > MAX_VALUE_LEN
          => ret'.res = Err("ValueTooBig") /\ entries' = entries /\ secret' = secret
       /\ \A k \in DOMAIN entries' : WithinBounds(k, entries'[k])]_vars

\* an oversize value has been refused for a key the Store holds
C5_Witness ==
    /\ ret.op = "try_insert"
    /\ ret.res = Err("ValueTooBig")
    /\ ret.key \in DOMAIN entries
    /\ FillLevel(entries) > 0

\* what the history says get(k) is
Latest(k) == IF k \in DOMAIN last THEN Some(last[k]) ELSE None

\* C6: get(k) is None for a key never inserted or removed, Some(None) after a
\* successful try_insert(k, None), Some(Some(v)) after a successful
\* try_insert(k, Some(v)): it reflects the latest successful insert or remove.
C6_TriStateGet ==
    /\ \A k \in FreeKeys \cup FillKeys : get(entries, k) = Latest(k)
    /\ ret.op = "try_insert" /\ ret.res.ok => get(entries, ret.key) = Some(ret.value)
    /\ ret.op = "remove" => get(entries, ret.key) = None

\* the three answers of get at once, the absent key having been removed
C6_Witness ==
    /\ get(entries, KeyA) = Some(None)
    /\ get(entries, FillKey(1)) = Some(Some(FillValue))
    /\ ret.op = "remove" /\ ret.key = KeyBye /\ ret.prior = Some(Some(ValV))
    /\ get(entries, KeyBye) = None

\* C7 as claimed: the result of a successful try_insert for a key that was
\* present with no value differs from the result for a key that was absent
\* (which is None).
C7_Distinguishes ==
    ret.op = "try_insert" /\ ret.res.ok /\ ret.prior = Some(None) => ret.res.val # None

\* C7 amended: a successful try_insert returns Some(v) when the key held the
\* value v, and None both when the key was absent and when it held no value.
C7_PriorFlattened ==
    ret.op = "try_insert" /\ ret.res.ok
        => ret.res.val = (IF ret.prior = None THEN None ELSE ret.prior[1])

\* a key held with no value has been overwritten
C7_Witness ==
    /\ ret.op = "try_insert" /\ ret.res.ok
    /\ ret.prior = Some(None)
    /\ ret.value = Some(ValV)
    /\ ret.res.val = None

----------------------------------------------------------------------------
(* Serialise and load back (specification SpecCodec): a Store is built by  *)
(* inserts, serialised, and the buffer is loaded once under some secret.   *)

\* MConfig::builder().load(raw).secret(s).try_build(), or without .secret(..):
\* the caller keeps the bytes and the result
Load(raw, s) ==
    /\ vec' = raw
    /\ built' = Some([secret |-> s, res |-> try_build(Some(raw), s)])
    /\ UNCHANGED <<version, entries, secret, ret, last>>

InitCodec ==
    \E s \in CodecSecrets :
        LET b == try_build(None, s)
        IN /\ b.ok
           /\ version = b.val.version
           /\ entries = b.val.entries
           /\ secret = b.val.secret
           /\ ret = NoCall
           /\ last = NoHistory
           /\ vec = <<>>
           /\ built = None

NextCodec ==
    \/ /\ vec = <<>>
       /\ \E k \in CodecKeys, v \in CodecValues : TryInsert(k, v)
    \/ /\ vec = <<>>
       /\ \E o \in IterOrders(entries), rnd \in RandomStreams : ToVec(o, rnd)
    \/ /\ vec # <<>> /\ built = None
       /\ \E s \in LoadSecrets : Load(vec, s)

SpecCodec == InitCodec /\ [][NextCodec]_vars

Region(raw) == SubSeq(raw, HEADER_SIZE + 1, Len(raw))

\* what the parser is to make of a region for its lengths alone: where and how
\* the walk over key_len, key, val_len, value ends
RECURSIVE Walk(_, _)
Walk(region, i) ==
    IF i > Len(region) THEN [end |-> "EndOfBuffer", at |-> i]
    ELSE IF region[i] = 0 THEN [end |-> "Sentinel", at |-> i]
    ELSE IF Len(region) - i < region[i] THEN [end |-> "TruncatedKey", at |-> i]
    ELSE LET j == i + region[i] + 1
         IN IF j > Len(region) THEN [end |-> "MissingKey", at |-> j]
            ELSE IF Len(region) - j < region[j] THEN [end |-> "TruncatedValue", at |-> j]
            ELSE Walk(region, j + region[j] + 1)

Plain(raw, sec) == deobfuscate(Region(raw), sec, 0)

\* the buffer up to and including its sentinel byte, as read under sec
ThroughSentinel(raw, sec) ==
    SubSeq(raw, 1, HEADER_SIZE + Walk(Plain(raw, sec), 1).at)

HasSentinel(raw, sec) ==
    Len(raw) >= HEADER_SIZE /\ Walk(Plain(raw, sec), 1).end = "Sentinel"

\* C1 as claimed: loading the buffer of to_vec() with the secret of the Store
\* succeeds and yields the entries of the Store.
C1_RoundTrip ==
    built # None /\ built[1].secret = secret
        => built[1].res.ok /\ built[1].res.val.entries = entries

KeyByte(sec, i) == sec[((i - 1) % Len(sec)) + 1]
SameKeystream(a, b, n) == \A i \in 1..n : KeyByte(a, i) = KeyByte(b, i)
SameOutcome(r1, r2) ==
    /\ r1.ok = r2.ok
    /\ r1.err = r2.err
    /\ r1.ok => r1.val.entries = r2.val.entries

\* C3 as claimed: a nonempty Store serialised under secret A and loaded under
\* a secret B # A gives an error or entries that differ from the Store's.
C3_WrongSecretDiverges ==
    /\ built # None /\ secret # None /\ built[1].secret # None
    /\ built[1].secret # secret
    /\ DOMAIN entries # {}
    => ~built[1].res.ok \/ built[1].res.val.entries # entries

\* C3 amended: when the cycled bytes of A and B agree on every position up to
\* and including the sentinel byte, loading under B gives what loading under A
\* gives (so a different secret need not be detected).
C3_SameKeystreamSameLoad ==
    built # None /\ secret # None /\ built[1].secret # None
    => LET w == Walk(Plain(vec, secret), 1)
       IN w.end = "Sentinel" /\ SameKeystream(secret[1], built[1].secret[1], w.at)
          => SameOutcome(built[1].res, try_build(Some(vec), secret))

\* a Store written under "T" and read back unharmed under "TT"
C3_Witness ==
    /\ built # None
    /\ secret = Some(SecretT) /\ built[1].secret = Some(SecretTT)
    /\ DOMAIN entries = {KeyA} /\ entries[KeyA] = Some(ValV)
    /\ built[1].res.ok /\ built[1].res.val.entries = entries

----------------------------------------------------------------------------
(* Loading bytes of any kind (specification SpecParse): the caller loads a *)
(* buffer, then loads it again with other bytes after the sentinel.        *)

InitParse ==
    /\ version = LATEST_VERSION
    /\ entries = MCHashMap_new
    /\ secret = None
    /\ ret = NoCall
    /\ last = NoHistory
    /\ vec = <<>>
    /\ built = None

NextParse ==
    \/ /\ built = None
       /\ \E raw \in RawBuffers, s \in ParseSecrets : Load(raw, s)
    \/ /\ built # None
       /\ HasSentinel(vec, built[1].secret)
       /\ \E pad \in Paddings :
            Load(ThroughSentinel(vec, built[1].secret) \o pad, built[1].secret)

SpecParse == InitParse /\ [][NextParse]_vars

ParseErrors == {"TruncatedKey", "MissingKey", "TruncatedValue", "InvalidUTF8"}

\* C8: try_build on loaded bytes answers, in this order: fewer than 6 bytes,
\* TooShort; more than 8192, TooBig; first 5 bytes not the magic, BadHeader;
\* byte 5 not 0, UnknownVersion; otherwise the entries are parsed, and a buffer
\* of 6 bytes gives an empty Store.
C8_StructuralChecks ==
    built # None =>
        LET r == built[1].res
        IN IF Len(vec) < 6 THEN r = Err("TooShort")
           ELSE IF Len(vec) > 8192 THEN r = Err("TooBig")
           ELSE IF SubSeq(vec, 1, 5) # <<77, 67, 79, 78, 70>> THEN r = Err("BadHeader")
           ELSE IF vec[6] # 0 THEN r = Err("UnknownVersion")
           ELSE /\ r.ok \/ r.err \in ParseErrors
                /\ Len(vec) = 6 => r.ok /\ DOMAIN r.val.entries = {}
                /\ r.ok => r.val.version = 0 /\ r.val.secret = built[1].secret

\* a buffer that is too long and has the wrong magic is refused for its length
C8_Witness ==
    /\ built # None
    /\ Len(vec) = MCONFIG_SIZE + 1
    /\ SubSeq(vec, 1, HEADER_SIZE) = BadMagic
    /\ built[1].res = Err("TooBig")

\* C9: the parse of the region after the header ends in exactly one way: with
\* TruncatedKey, MissingKey or TruncatedValue where the walk over the lengths
\* ends so, with success where it ends at a zero key length or at the end of the
\* buffer after a complete entry, or else with InvalidUTF8, which needs a byte
\* above 127.
C9_EntryErrors ==
    built # None /\ Len(vec) >= HEADER_SIZE /\ Len(vec) <= MCONFIG_SIZE
                 /\ SubSeq(vec, 1, HEADER_SIZE) = GoodHeader
    => LET r == built[1].res
           p == Plain(vec, built[1].secret)
           w == Walk(p, 1)
       IN /\ r.ok \/ r.err \in ParseErrors
          /\ r.ok => w.end \in {"Sentinel", "EndOfBuffer"}
          /\ ~r.ok /\ r.err # "InvalidUTF8" => r.err = w.end
          /\ ~r.ok /\ r.err = "InvalidUTF8" => \E i \in 1..Len(p) : p[i] > 127
          /\ (\A i \in 1..Len(p) : p[i] <= 127) /\ w.end \in ParseErrors => r.err = w.end

\* a complete entry, then a key cut short
C9_Witness ==
    /\ built # None
    /\ built[1].secret = None
    /\ Region(vec) = <<1, 97, 0, 1>>
    /\ SubSeq(vec, 1, HEADER_SIZE) = GoodHeader
    /\ built[1].res = Err("TruncatedKey")

\* C10: two buffers of at most MCONFIG_SIZE bytes that are the same up to and
\* including the sentinel byte, loaded with the same secret, give the same
\* result, whatever follows the sentinel.
C10_PaddingIgnored ==
    [][/\ built # None /\ built' # None
       /\ built'[1].secret = built[1].secret
       /\ Len(vec) <= MCONFIG_SIZE /\ Len(vec') <= MCONFIG_SIZE
       /\ HasSentinel(vec, built[1].secret)
       /\ HasSentinel(vec', built[1].secret)
       /\ ThroughSentinel(vec, built[1].secret) = ThroughSentinel(vec', built[1].secret)
       => SameOutcome(built[1].res, built'[1].res)]_vars

\* entries were loaded from a buffer whose padding reads as one more entry
C10_Witness ==
    /\ built # None
    /\ built[1].secret = None
    /\ Region(vec) = <<1, 97, 0, 0, 1, 255>>
    /\ built[1].res.ok
    /\ DOMAIN built[1].res.val.entries = {KeyA}

----------------------------------------------------------------------------
(* Obfuscation alone (specification SpecXor): a region of bytes goes       *)
(* through obfuscate and then through deobfuscate under the same secret;   *)
(* or the empty Store is serialised.                                       *)

MaxRegion == 3
XorBytes == {0, 1, 84, 255}
XorRegions == UNION {[1..n -> XorBytes] : n \in 0..MaxRegion}
SecretT1 == <<84, 1>>
XorSecrets == {None, Some(<<>>), Some(SecretT), Some(SecretTT), Some(SecretT1),
               Some(SecretTacos)}

\* the region to work on is in vec
InitXor ==
    /\ version = LATEST_VERSION
    /\ entries = MCHashMap_new
    /\ secret \in XorSecrets
    /\ ret = NoCall
    /\ last = NoHistory
    /\ vec \in XorRegions
    /\ built = None

\* prior: the region before any call; res: the argument of this call
Obfuscate ==
    /\ ret.op = "new"
    /\ vec' = obfuscate(vec, secret, version)
    /\ ret' = [op |-> "obfuscate", key |-> <<>>, value |-> None,
               prior |-> Some(vec), res |-> vec]
    /\ UNCHANGED <<version, entries, secret, last, built>>

Deobfuscate ==
    /\ ret.op = "obfuscate"
    /\ vec' = deobfuscate(vec, secret, version)
    /\ ret' = [op |-> "deobfuscate", key |-> <<>>, value |-> None,
               prior |-> ret.prior, res |-> vec]
    /\ UNCHANGED <<version, entries, secret, last, built>>

NextXor ==
    \/ Obfuscate
    \/ Deobfuscate
    \/ /\ ret.op = "new"
       /\ \E o \in IterOrders(entries), rnd \in RandomStreams : ToVec(o, rnd)

SpecXor == InitXor /\ [][NextXor]_vars

\* C11: obfuscate XORs byte i of the region with byte (i mod length) of the
\* secret and leaves the region as it is without a secret; deobfuscate under
\* the same secret gives the region back; the header of a serialised Store is
\* the plain magic and version, and its region deobfuscates to the plain entries.
C11_SelfInverse ==
    /\ ret.op = "obfuscate" =>
          /\ Len(vec) = Len(ret.prior[1])
          /\ secret = None => vec = ret.prior[1]
          /\ secret # None /\ Len(secret[1]) > 0 =>
                \A i \in 1..Len(vec) :
                    vec[i] = XorBits(ret.prior[1][i], KeyByte(secret[1], i), 8)
    /\ ret.op = "deobfuscate" => vec = ret.prior[1]
    /\ ret.op = "to_vec" =>
          /\ ~ret.res.panic
          /\ SubSeq(vec, 1, HEADER_SIZE) = <<77, 67, 79, 78, 70, 0>>
          /\ \E rnd \in RandomStreams :
                deobfuscate(Region(vec), secret, version)
                    = entries_to_vec(entries, <<>>, rnd).bytes

\* <<255, 1, 84>> under the secret <<84, 1>> became <<171, 0, 0>> and is back
C11_Witness ==
    /\ ret.op = "deobfuscate"
    /\ secret = Some(SecretT1)
    /\ ret.prior = Some(<<255, 1, 84>>)
    /\ ret.res = <<171, 0, 0>>
    /\ vec = <<255, 1, 84>>

----------------------------------------------------------------------------
(* Changing the secret (specification SpecSecret): as SpecCodec, with      *)
(* set_secret among the calls on the Store.                                *)

NextSecret ==
    \/ /\ vec = <<>>
       /\ \E k \in CodecKeys, v \in CodecValues : TryInsert(k, v)
    \/ /\ vec = <<>>
       /\ \E s \in CodecSecrets : SetSecret(s)
    \/ /\ vec = <<>>
       /\ \E o \in IterOrders(entries), rnd \in RandomStreams : ToVec(o, rnd)
    \/ /\ vec # <<>> /\ built = None
       /\ \E s \in LoadSecrets : Load(vec, s)

SpecSecret == InitCodec /\ [][NextSecret]_vars

SetSecretCall == ret'.op = "set_secret"
ToVecAfterSetSecret == ret.op = "set_secret" /\ ret'.op = "to_vec"

\* C12, the frame: set_secret(s) makes s the secret and leaves version and
\* entries, hence get, contains_key, len and the iteration, as they were.
C12_SetSecretFrame ==
    [][SetSecretCall =>
          /\ secret' = ret'.value
          /\ version' = version /\ entries' = entries
          /\ \A k \in CodecKeys : /\ get(entries', k) = get(entries, k)
                                  /\ contains_key(entries', k) = contains_key(entries, k)
          /\ len(entries') = len(entries)
          /\ IterOrders(entries') = IterOrders(entries)]_vars

\* C12, the buffer: the to_vec() that follows set_secret(s) is the plain entries
\* obfuscated with s (plain when s is None).
C12_ObfuscatedWithNewSecret ==
    [][ToVecAfterSetSecret =>
          /\ ~ret'.res.panic
          /\ \E o \in IterOrders(entries), rnd \in RandomStreams :
                Region(vec') = obfuscate(entries_to_vec(entries, o, rnd).bytes, ret.value, version)
          /\ ret.value = None =>
                \E o \in IterOrders(entries), rnd \in RandomStreams :
                    Region(vec') = entries_to_vec(entries, o, rnd).bytes]_vars

\* C12 as claimed: set_secret(s) changes the secret alone, and the to_vec()
\* that follows it gives a buffer that loads back, under s, to the entries of
\* the Store.
C12_SetSecretRoundTrip ==
    [][/\ SetSecretCall => secret' = ret'.value /\ version' = version /\ entries' = entries
       /\ ToVecAfterSetSecret =>
             LET b == try_build(Some(vec'), ret.value)
             IN b.ok /\ b.val.entries = entries]_vars

----------------------------------------------------------------------------
(* More properties of the Store (specification Spec) *)

RemoveCall == vec = <<>> /\ vec' = <<>> /\ ret'.op = "remove"

\* C13: remove(k) returns what get(k) returned just before it; after it
\* contains_key(k) is false and try_get(k) is Err(MissingKey); len() is one less
\* exactly when k was present; every other key keeps its value and the secret
\* is unchanged.
C13_RemoveFrame ==
    [][RemoveCall =>
          LET k == ret'.key
          IN /\ ret'.res = get(entries, k)
             /\ ret'.res \in {None, Some(None)} \/ ret'.res = Some(Some(entries[k][1]))
             /\ ~contains_key(entries', k)
             /\ try_get(entries', k) = Err("MissingKey")
             /\ len(entries') = len(entries) - (IF k \in DOMAIN entries THEN 1 ELSE 0)
             /\ DOMAIN entries' = DOMAIN entries \ {k}
             /\ \A x \in DOMAIN entries \ {k} : get(entries', x) = get(entries, x)
             /\ secret' = secret /\ version' = version]_vars

\* a key held with no value has been removed from a Store that keeps another
C13_Witness ==
    /\ ret.op = "remove" /\ ret.key = KeyA
    /\ ret.res = Some(None)
    /\ get(entries, KeyBye) = Some(Some(ValV))
    /\ secret = Some(SecretTacos)

\* C16: the projection of try_insert counts the entry a key already has: an
\* insert within the length bounds for a key the Store holds returns
\* Err(TooBig) whenever header + all entries held + the new entry is >=
\* MCONFIG_SIZE, whatever the size after the replacement would be, and the
\* Store is then unchanged.
C16_AdditiveProjection ==
    [][InsertCall /\ WithinBounds(ret'.key, ret'.value) /\ ret'.key \in DOMAIN entries
       /\ HEADER_SIZE + EncodedSize(entries) + Len(EncodeEntry(ret'.key, ret'.value))
              >= MCONFIG_SIZE
       => /\ ret'.res = Err("TooBig")
          /\ entries' = entries /\ secret' = secret /\ version' = version]_vars

\* a value was refused that would have made the Store smaller
C16_Witness ==
    /\ ret.op = "try_insert" /\ ret.res = Err("TooBig")
    /\ ret.key = KeyA /\ ret.value = None
    /\ entries[KeyA] = Some(ValV)
    /\ HEADER_SIZE + EncodedSize(HashMap_insert(entries, KeyA, None)) + 1
           < HEADER_SIZE + EncodedSize(entries) + 1

----------------------------------------------------------------------------
(* Buffers that repeat a key (specification SpecDup): a file whose entries *)
(* repeat keys is opened and the Store built from it takes inserts, as in  *)
(* main.                                                                   *)

MaxDup == 3
KeyB == <<98>>                               \* "b"
DupKeys == {KeyA, KeyB}
DupValues == {None, Some(ValV)}
DupEntries == DupKeys \X DupValues
DupSecrets == {None, Some(SecretT)}
\* what follows the entries: nothing, the sentinel, the sentinel and padding
\* that reads as an entry
DupTails == {<<>>, <<0>>, <<0, 1, 97, 0>>}

RECURSIVE EncodeList(_, _)
EncodeList(es, i) ==
    IF i > Len(es) THEN <<>>
    ELSE EncodeEntry(es[i][1], es[i][2]) \o EncodeList(es, i + 1)

DupBuffers(s) ==
    {GoodHeader \o obfuscate(EncodeList(es, 1) \o t, s, 0) :
        es \in UNION {[1..n -> DupEntries] : n \in 0..MaxDup}, t \in DupTails}

\* let mut mcnf = MConfig::builder().load(data).secret(s).try_build()?
Open(raw, s) ==
    LET b == try_build(Some(raw), s)
    IN /\ vec' = raw
       /\ built' = Some([secret |-> s, res |-> b])
       /\ version' = IF b.ok THEN b.val.version ELSE version
       /\ entries' = IF b.ok THEN b.val.entries ELSE entries
       /\ secret' = IF b.ok THEN b.val.secret ELSE secret
       /\ last' = IF b.ok THEN b.val.entries ELSE last
       /\ ret' = [op |-> "try_build", key |-> <<>>, value |-> None, prior |-> None,
                  res |-> b.ok]

NextDup ==
    \/ /\ built = None
       /\ \E s \in DupSecrets : \E raw \in DupBuffers(s) : Open(raw, s)
    \/ /\ built # None /\ built[1].res.ok
       /\ \E k \in DupKeys, v \in DupValues : TryInsert(k, v)

SpecDup == InitParse /\ [][NextDup]_vars

\* the entries a region holds before its sentinel, in order, read by their lengths
RECURSIVE Scan(_, _)
Scan(region, i) ==
    IF i > Len(region) \/ region[i] = 0 THEN <<>>
    ELSE LET j == i + region[i] + 1
             k == SubSeq(region, i + 1, i + region[i])
         IN IF j > Len(region) THEN <<>>
            ELSE <<<<k, IF region[j] = 0 THEN None
                        ELSE Some(SubSeq(region, j + 1, j + region[j]))>>>>
                 \o Scan(region, j + region[j] + 1)

Occurs(es, k) == {i \in 1..Len(es) : es[i][1] = k}
LastOf(es, k) == es[CHOOSE i \in Occurs(es, k) : \A j \in Occurs(es, k) : j <= i][2]

\* C14: a Store loaded from a region that repeats a key holds each key of the
\* region once, with the value (or none) of its last occurrence before the
\* sentinel; a successful try_insert of a key the Store holds replaces its
\* value, keeps the other entries and leaves len() as it was.
C14_LastWins ==
    [][/\ ret'.op = "try_build" /\ built'[1].res.ok =>
             LET es == Scan(Plain(vec', built'[1].secret), 1)
             IN /\ DOMAIN entries' = {es[i][1] : i \in 1..Len(es)}
                /\ \A k \in DOMAIN entries' : entries'[k] = LastOf(es, k)
                /\ len(entries') = Cardinality({es[i][1] : i \in 1..Len(es)})
       /\ ret'.op = "try_insert" /\ ret'.res.ok /\ ret'.key \in DOMAIN entries =>
             /\ get(entries', ret'.key) = Some(ret'.value)
             /\ len(entries') = len(entries)
             /\ DOMAIN entries' = DOMAIN entries
             /\ \A x \in DOMAIN entries \ {ret'.key} : entries'[x] = entries[x]]_vars

\* "a" with a value, then "b", then "a" without: the Store holds "a" without
\* value, and a later insert has given it one again
C14_Witness ==
    /\ built # None /\ built[1].secret = None
    /\ Region(vec) = <<1, 97, 1, 118, 1, 98, 0, 1, 97, 0>>
    /\ built[1].res.ok
    /\ built[1].res.val.entries = [k \in {KeyA, KeyB} |-> None]
    /\ ret.op = "try_insert" /\ ret.key = KeyA /\ ret.prior = Some(None)
    /\ entries = [k \in {KeyA, KeyB} |-> IF k = KeyA THEN Some(ValV) ELSE None]

----------------------------------------------------------------------------
(* The command line (specification SpecCli): one run of main on a file.    *)
(* vec is the content of the file; args is the set of the arguments given. *)

Flags == {"file", "list", "key", "value", "empty", "remove"}

\* clap's get_matches() on the Arg definitions of main: `file` is required;
\* conflicts_with holds both ways; requires names an argument that must be there
get_matches(args) ==
    /\ "file" \in args
    /\ ~({"list", "key"} \subseteq args)
    /\ "value" \in args => "key" \in args
    /\ "empty" \in args => "key" \in args /\ "value" \notin args
    /\ "remove" \in args => "key" \in args /\ "value" \notin args

FileA == GoodHeader \o <<1, 97, 0, 0>>
FileFull == to_vec(0, [k \in {KeyA} |-> Some(ValV)], None, <<KeyA>>, RandomZeros).bytes
FileT == GoodHeader \o xor_buffer(<<1, 97, 1, 118, 0>>, SecretT)
CliFiles == {GoodHeader, FileA, FileFull, FileT, BadMagic}
\* the line typed at the prompt, trimmed
CliSecrets == {<<>>, SecretT}
CliKeys == {KeyA, KeyB}

InitCli ==
    /\ version = LATEST_VERSION
    /\ entries = MCHashMap_new
    /\ secret = None
    /\ ret = NoCall
    /\ last = NoHistory
    /\ vec \in CliFiles
    /\ built = None

\* what a run reports: whether the arguments were accepted, the error that
\* ended it, the mutations applied to the Store, whether the file was written
Report(args, acc, err, applied, wrote) ==
    [args |-> args, accepted |-> acc, err |-> err, applied |-> applied, wrote |-> wrote]

\* main(): arguments, read, prompt, try_build, then list, remove, insert or get
Main(args, key, value, typed) ==
    LET b == try_build(Some(vec), Some(typed))
        m == b.val.entries
        End(store, rep, file) ==
            /\ entries' = store
            /\ vec' = file
            /\ ret' = [op |-> "main", key |-> key, value |-> Some(value),
                       prior |-> None, res |-> rep]
        Write(store, applied) ==
            \E o \in IterOrders(store), rnd \in RandomStreams :
                LET r == to_vec(b.val.version, store, b.val.secret, o, rnd)
                IN IF r.panic THEN End(store, Report(args, TRUE, "panic", applied, FALSE), vec)
                   ELSE End(store, Report(args, TRUE, "-", applied, TRUE), r.bytes)
        Insert(v, name) ==
            LET r == try_insert(m, key, v)
            IN IF r.res.ok THEN Write(r.entries, <<name>>)
               ELSE End(m, Report(args, TRUE, r.res.err, <<>>, FALSE), vec)
    IN /\ ret.op = "new"
       /\ UNCHANGED <<version, last>>
       /\ IF ~get_matches(args)
          THEN /\ End(entries, Report(args, FALSE, "usage", <<>>, FALSE), vec)
               /\ UNCHANGED <<secret, built>>
          ELSE /\ built' = Some([secret |-> Some(typed), res |-> b])
               /\ secret' = Some(typed)
               /\ IF ~b.ok THEN End(entries, Report(args, TRUE, b.err, <<>>, FALSE), vec)
                  ELSE IF "list" \in args THEN End(m, Report(args, TRUE, "-", <<>>, FALSE), vec)
                  ELSE IF "key" \notin args THEN End(m, Report(args, TRUE, "-", <<>>, FALSE), vec)
                  ELSE IF "remove" \in args
                  THEN IF remove(m, key).res # None
                       THEN Write(remove(m, key).entries, <<"remove">>)
                       ELSE End(m, Report(args, TRUE, "-", <<"remove">>, FALSE), vec)
                  ELSE IF "empty" \in args THEN Insert(None, "empty")
                  ELSE IF "value" \in args THEN Insert(Some(value), "value")
                  ELSE End(m, Report(args, TRUE, "-", <<>>, FALSE), vec)

NextCli ==
    \E args \in SUBSET Flags, key \in CliKeys, typed \in CliSecrets :
        Main(args, key, ValV, typed)

SpecCli == InitCli /\ [][NextCli]_vars

Mutations == {"value", "empty", "remove"}

\* C15 as claimed: an accepted invocation does not carry --list with --key, nor
\* two of --value, --empty, --remove, and a run applies at most one mutation.
C15_FlagsExclusive ==
    ret.op = "main" /\ ret.res.accepted =>
        /\ ~({"list", "key"} \subseteq ret.res.args)
        /\ Cardinality(ret.res.args \cap Mutations) <= 1
        /\ Len(ret.res.applied) <= 1

\* C15, what holds: --list excludes --key, --value excludes --empty and
\* --remove; --empty and --remove are accepted together, and then the run
\* removes the key and inserts nothing (unless the file fails to load); a run
\* applies at most one mutation.
C15_AtMostOneMutation ==
    ret.op = "main" /\ ret.res.accepted =>
        /\ ~({"list", "key"} \subseteq ret.res.args)
        /\ "value" \in ret.res.args => ret.res.args \cap Mutations = {"value"}
        /\ {"empty", "remove"} \subseteq ret.res.args /\ ret.res.err = "-" =>
              /\ ret.res.applied = <<"remove">>
              /\ ret.key \notin DOMAIN entries
        /\ Len(ret.res.applied) <= 1
        /\ \A i \in 1..Len(ret.res.applied) : ret.res.applied[i] \in ret.res.args

----------------------------------------------------------------------------
(* Serialising a loaded Store (specification SpecReload): a buffer is      *)
(* opened and the Store built from it is serialised.                       *)

MaxReload == 3
ReloadBodies == UNION {[1..n -> ParseBytes] : n \in 0..MaxReload}

\* as many entries of MAX_KEY_LEN and MAX_VALUE_LEN - 1 bytes as a buffer takes
BrimCount == (MCONFIG_SIZE - HEADER_SIZE) \div EntryLen(FillKey(1), Some(FillValue))
BrimEntries == EncodeList([i \in 1..BrimCount |-> <<FillKey(i), Some(FillValue)>>], 1)
Key4 == <<97, 98, 99, 100>>                  \* "abcd"
Val4 == <<49, 50, 51, 52>>                   \* "1234"
Val3 == <<49, 50, 51>>                       \* "123"
\* entries up to the last byte of the buffer, and no sentinel
FileBrimful == GoodHeader \o BrimEntries \o EncodeEntry(Key4, Some(Val4))
\* entries, and the sentinel in the last byte of the buffer
FileSentinelLast == GoodHeader \o BrimEntries \o EncodeEntry(Key4, Some(Val3)) \o <<0>>

ReloadBuffers ==
    {GoodHeader \o b : b \in ReloadBodies} \cup {FileBrimful, FileSentinelLast}

NextReload ==
    \/ /\ built = None
       /\ \E s \in ParseSecrets : \E raw \in ReloadBuffers : Open(raw, s)
    \/ /\ built # None /\ built[1].res.ok /\ ret.op = "try_build"
       /\ \E o \in IterOrders(entries), rnd \in RandomStreams : ToVec(o, rnd)

SpecReload == InitParse /\ [][NextReload]_vars

\* C17 as claimed: a Store that try_build returns for loaded bytes has header +
\* encoded entries + terminator <= MCONFIG_SIZE, and to_vec() on it does not
\* panic and returns MCONFIG_SIZE bytes.
C17_LoadedStoreFits ==
    /\ built # None /\ built[1].res.ok =>
          HEADER_SIZE + EncodedSize(built[1].res.val.entries) + 1 <= MCONFIG_SIZE
    /\ ret.op = "to_vec" => ~ret.res.panic /\ ret.res.len = MCONFIG_SIZE

\* C17, what holds: a loaded Store has header + encoded entries <= MCONFIG_SIZE
\* (the terminator may not fit), and to_vec() on it returns MCONFIG_SIZE bytes
\* or panics, the latter exactly when the terminator does not fit.
C17_LoadedStoreFitsWithoutTerminator ==
    /\ built # None /\ built[1].res.ok =>
          HEADER_SIZE + EncodedSize(built[1].res.val.entries) <= MCONFIG_SIZE
    /\ ret.op = "to_vec" =>
          /\ ret.res.panic <=> HEADER_SIZE + EncodedSize(entries) + 1 > MCONFIG_SIZE
          /\ ~ret.res.panic => ret.res.len = MCONFIG_SIZE

----------------------------------------------------------------------------
(* A Store from a plain map (specification SpecFrom): MConfig::try_from is *)
(* given a HashMap, and the Store it returns is serialised.                *)

\* the for loop of try_from, standing at the i-th entry the iterator yields
RECURSIVE try_from_loop(_, _, _, _)
try_from_loop(value, order, i, total_len) ==
    IF i > Len(order)
    THEN Ok([version |-> LATEST_VERSION, entries |-> value, secret |-> None])
    ELSE LET key == order[i]
             v == value[key]
             total == total_len + Len(key) + 1 + (IF v = None THEN 0 ELSE Len(v[1])) + 1
         IN IF Len(key) > MAX_KEY_LEN THEN Err("KeyTooBig")
            ELSE IF v # None /\ Len(v[1]) > MAX_VALUE_LEN THEN Err("ValueTooBig")
            ELSE IF total > MCONFIG_SIZE - HEADER_SIZE THEN Err("TooBig")
            ELSE try_from_loop(value, order, i + 1, total)

\* impl TryFrom<HashMap<String, Option<String>>> for MConfig
try_from(value, order) == try_from_loop(value, order, 1, 0)

Val5 == <<49, 50, 51, 52, 53>>               \* "12345"
MapOf(k, v) == [x \in {k} |-> v]
Merge(m1, m2) == [x \in DOMAIN m1 \cup DOMAIN m2 |-> IF x \in DOMAIN m2 THEN m2[x] ELSE m1[x]]
FillMap(n) == [k \in {FillKey(i) : i \in 1..n} |-> Some(FillValue)]

\* the maps handed to try_from: up to BrimCount large entries and a few small
\* ones, some of them out of bounds
FromExtras ==
    {MCHashMap_new,
     MapOf(Key4, Some(Val3)), MapOf(Key4, Some(Val4)), MapOf(Key4, Some(Val5)),
     MapOf(KeyA, None), MapOf(KeyHuge, None), MapOf(KeyA, Some(ValHuge)),
     Merge(MapOf(KeyA, None), MapOf(Key4, Some(Val4))),
     Merge(MapOf(KeyHuge, None), MapOf(KeyA, Some(ValHuge)))}
FromMaps == {Merge(FillMap(n), x) : n \in 0..BrimCount, x \in FromExtras}

\* MConfig::try_from(value): value is kept in ret, the Store replaces the fields
TryFrom(value, order) ==
    LET r == try_from(value, order)
    IN /\ ret.op = "new"
       /\ ret' = [op |-> "try_from", key |-> <<>>, value |-> value, prior |-> None,
                  res |-> IF r.ok THEN Ok(TRUE) ELSE r]
       /\ version' = IF r.ok THEN r.val.version ELSE version
       /\ entries' = IF r.ok THEN r.val.entries ELSE entries
       /\ secret' = IF r.ok THEN r.val.secret ELSE secret
       /\ UNCHANGED <<last, vec, built>>

NextFrom ==
    \/ \E value \in FromMaps : \E order \in IterOrders(value) : TryFrom(value, order)
    \/ /\ ret.op = "try_from" /\ ret.res.ok
       /\ \E o \in IterOrders(entries), rnd \in RandomStreams : ToVec(o, rnd)

SpecFrom == InitParse /\ [][NextFrom]_vars

\* sum of key_len + 1 + value_len + 1 over the entries of m
TotalLen(m) == FoldLen(m, DOMAIN m, 0)
AllWithinBounds(m) == \A k \in DOMAIN m : WithinBounds(k, m[k])

\* C18 as claimed: try_from accepts exactly the maps within the length bounds
\* whose total try_insert would accept (6 + total < MCONFIG_SIZE); the Store it
\* returns has version 0, no secret and the entries of the map, and to_vec() on
\* it returns MCONFIG_SIZE bytes; a refusal is KeyTooBig, ValueTooBig or TooBig.
C18_TryFromFits ==
    /\ ret.op = "try_from" =>
          /\ ret.res.ok <=> /\ AllWithinBounds(ret.value)
                            /\ HEADER_SIZE + TotalLen(ret.value) < MCONFIG_SIZE
          /\ ret.res.ok => entries = ret.value /\ version = 0 /\ secret = None
          /\ ~ret.res.ok => ret.res.err \in {"KeyTooBig", "ValueTooBig", "TooBig"}
    /\ ret.op = "to_vec" => ~ret.res.panic /\ ret.res.len = MCONFIG_SIZE

\* C18, what holds: try_from accepts exactly the maps within the length bounds
\* whose total is <= MCONFIG_SIZE - HEADER_SIZE; KeyTooBig, ValueTooBig and
\* TooBig are returned only for a key, a value, a total that is too big; to_vec()
\* on the Store returned panics exactly when the total is MCONFIG_SIZE -
\* HEADER_SIZE, and returns MCONFIG_SIZE bytes otherwise.
C18_TryFromBound ==
    /\ ret.op = "try_from" =>
          /\ ret.res.ok <=> /\ AllWithinBounds(ret.value)
                            /\ TotalLen(ret.value) <= MCONFIG_SIZE - HEADER_SIZE
          /\ ret.res.ok => entries = ret.value /\ version = 0 /\ secret = None
          /\ ~ret.res.ok =>
                /\ ret.res.err \in {"KeyTooBig", "ValueTooBig", "TooBig"}
                /\ ret.res.err = "KeyTooBig" =>
                      \E k \in DOMAIN ret.value : Len(k) > MAX_KEY_LEN
                /\ ret.res.err = "ValueTooBig" =>
                      \E k \in DOMAIN ret.value :
                          ret.value[k] # None /\ Len(ret.value[k][1]) > MAX_VALUE_LEN
                /\ ret.res.err = "TooBig" =>
                      TotalLen(ret.value) > MCONFIG_SIZE - HEADER_SIZE
    /\ ret.op = "to_vec" =>
          /\ ret.res.panic <=> TotalLen(entries) = MCONFIG_SIZE - HEADER_SIZE
          /\ ~ret.res.panic => ret.res.len = MCONFIG_SIZE

----------------------------------------------------------------------------
(* More properties of serialise and load back (specification SpecCodec) *)

\* Some("") read back
Flat(v) == IF v = Some(ValEmpty) THEN None ELSE v
\* what is left of m, serialised in the order o, after the load: the entries
\* that come before the empty key, a value "" having become no value
Surviving(m, o) ==
    LET stop == IF \E i \in 1..Len(o) : o[i] = KeyEmpty
                THEN CHOOSE i \in 1..Len(o) : o[i] = KeyEmpty
                ELSE Len(o) + 1
    IN [k \in {o[i] : i \in 1..(stop - 1)} |-> Flat(m[k])]

\* C19: loading the buffer of to_vec() with the secret of the Store succeeds,
\* and gives the entries of the Store if and only if the Store holds neither
\* the empty key nor a value Some(""); it gives the entries serialised before
\* the empty key, if there is one, each value Some("") read back as no value.
C19_RoundTripBoundary ==
    built # None /\ built[1].secret = secret =>
        LET p == Plain(vec, secret)
        IN /\ built[1].res.ok
           /\ built[1].res.val.entries = entries
                 <=> /\ KeyEmpty \notin DOMAIN entries
                     /\ \A k \in DOMAIN entries : entries[k] # Some(ValEmpty)
           /\ \E o \in IterOrders(entries) :
                 LET e == EncodeEntries(entries, o, 1) \o <<0>>
                 IN /\ SubSeq(p, 1, Len(e)) = e
                    /\ built[1].res.val.entries = Surviving(entries, o)

\* "a" came after the empty key in the buffer and was lost with it
C19_Witness ==
    /\ built # None /\ built[1].secret = secret
    /\ secret = Some(SecretT)
    /\ entries = [k \in {KeyEmpty, KeyA} |-> IF k = KeyA THEN Some(ValV) ELSE None]
    /\ built[1].res.ok
    /\ DOMAIN built[1].res.val.entries = {}

====
